---- MODULE Spec2Model ----
(***************************************************************************)
(* State-machine model of the GitHub App bot in src/github_bot/__main__.py *)
(* Three webhook handlers are registered with the framework's router:      *)
(*   on_pr_merged     pull_request / {closed}                              *)
(*   on_issue_opened  issues       / {opened}                              *)
(*   on_pr_check_wip  pull_request / {opened, edited}                      *)
(* A delivery spawns one task per matching handler.  A task runs until it  *)
(* awaits an outbound call, is resumed by the response, and ends by        *)
(* returning ("done") or by an exception that propagates ("fault").        *)
(*                                                                         *)
(* Text is modelled as a sequence of one-character strings, so that        *)
(* concatenation, lower-casing and substring search are computed.  The     *)
(* two emoji are the one-element strings "U+1F6A7" (construction sign)     *)
(* and "U+1F916" (robot face).  URLs are sequences of path segments.       *)
(***************************************************************************)
EXTENDS Naturals, Sequences, FiniteSets, Bags, TLC

\* ------------------------------------------------------------------ bounds
\* Deliveries received in one behaviour.
MaxDeliveries == 2
\* Fragments concatenated into a pull request title (title heuristic only).
MaxTitleParts == 3

\* ------------------------------------------------------------------- text
\* f"Thanks for the PR @{author}! ": the text before and after {author}.
ThanksForThePr ==
    <<"T", "h", "a", "n", "k", "s", " ", "f", "o", "r", " ", "t", "h", "e",
      " ", "P", "R", " ", "@">>
BangSpace ==
    <<"!", " ">>
\* f"Thanks for the report @{author}! " "I will look into it ASAP! (I'm a bot U+1F916)."
ThanksForTheReport ==
    <<"T", "h", "a", "n", "k", "s", " ", "f", "o", "r", " ", "t", "h", "e",
      " ", "r", "e", "p", "o", "r", "t", " ", "@">>
IssueTail ==
    <<"!", " ", "I", " ", "w", "i", "l", "l", " ", "l", "o", "o", "k", " ",
      "i", "n", "t", "o", " ", "i", "t", " ", "A", "S", "A", "P", "!", " ",
      "(", "I", "'", "m", " ", "a", " ", "b", "o", "t", " ", "U+1F916", ")",
      ".">>
\* Sample logins.
Octocat ==
    <<"o", "c", "t", "o", "c", "a", "t">>
Hubot ==
    <<"h", "u", "b", "o", "t">>
\* Sample titles.
TitleWipAddFeature ==
    <<"W", "I", "P", ":", " ", "a", "d", "d", " ", "f", "e", "a", "t", "u",
      "r", "e">>
TitleAddFeature ==
    <<"A", "d", "d", " ", "f", "e", "a", "t", "u", "r", "e">>
TitleFixDnmBug ==
    <<"F", "i", "x", " ", "D", "N", "M", " ", "b", "u", "g">>
TitleDraftPr ==
    <<"U+1F6A7", " ", "d", "r", "a", "f", "t", " ", "P", "R">>

\* ------------------------------------------------------- Python str, dict
\* s1 + s2 and the f-string's interpolation: concatenation.
Concat(a, b) == a \o b

\* `m in s` on two str: m occurs in s as a contiguous substring.
In(m, s) ==
    \E i \in 0..Len(s) :
        /\ i + Len(m) <= Len(s)
        /\ SubSeq(s, i + 1, i + Len(m)) = m

UpperCase ==
    <<"A", "B", "C", "D", "E", "F", "G", "H", "I", "J", "K", "L", "M",
      "N", "O", "P", "Q", "R", "S", "T", "U", "V", "W", "X", "Y", "Z">>
LowerCase ==
    <<"a", "b", "c", "d", "e", "f", "g", "h", "i", "j", "k", "l", "m",
      "n", "o", "p", "q", "r", "s", "t", "u", "v", "w", "x", "y", "z">>

\* str.lower() on one character: a cased letter maps to its lower-case
\* form, every other character (digits, punctuation, emoji) to itself.
LowerChar(c) ==
    IF \E i \in DOMAIN UpperCase : UpperCase[i] = c
    THEN LowerCase[CHOOSE i \in DOMAIN UpperCase : UpperCase[i] = c]
    ELSE c

\* A read d[k] of a dict raises KeyError when k is absent.
Has(d, k) == k \in DOMAIN d

\* The dict d with key k removed.
Without(d, k) == [x \in (DOMAIN d) \ {k} |-> d[x]]

\* --------------------------------------------------------------- payloads
\* Nested keys are flattened to paths: pull_request["head"]["repo"]["url"]
\* is the key "head.repo.url".  Only the keys a handler subscripts are
\* modelled; the other keyword arguments (number, repository, sender,
\* installation, ...) are read by no statement that decides a call.
RepoUrl == <<"repos", "o", "r">>
PullCommentsUrl == <<"repos", "o", "r", "issues", "7", "comments">>
IssueCommentsUrl == <<"repos", "o", "r", "issues", "8", "comments">>

PullRequest(merged, author, title) ==
    ("merged" :> merged) @@ ("title" :> title)
    @@ ("comments_url" :> PullCommentsUrl) @@ ("user.login" :> author)
    @@ ("head.ref" :> "topic") @@ ("head.sha" :> "c0ffee")
    @@ ("head.repo.url" :> RepoUrl)

Issue(author) ==
    ("comments_url" :> IssueCommentsUrl) @@ ("user.login" :> author)

Logins == {Octocat, Hubot}
SampleTitles == {TitleWipAddFeature, TitleAddFeature}

PullRequestEvent(action, pr) ==
    [event |-> "pull_request", action |-> action,
     payload |-> [pull_request |-> pr]]

IssuesEvent(action, issue) ==
    [event |-> "issues", action |-> action, payload |-> [issue |-> issue]]

\* The deliveries the environment may send: well-formed ones, ones whose
\* payload lacks one key a handler reads, and ones no handler is
\* registered for.
ClosedPulls ==
    {PullRequest(m, a, TitleAddFeature) : m \in BOOLEAN, a \in Logins}
    \cup {Without(PullRequest(TRUE, Octocat, TitleAddFeature), k) :
            k \in {"merged", "comments_url", "user.login"}}
    \cup {Without(PullRequest(FALSE, Octocat, TitleAddFeature),
                  "comments_url")}

OpenedPulls ==
    {PullRequest(FALSE, Octocat, t) : t \in SampleTitles}
    \cup {Without(PullRequest(FALSE, Octocat, TitleWipAddFeature), k) :
            k \in {"head.ref", "head.sha", "head.repo.url", "title"}}

EditedPulls == {PullRequest(FALSE, Octocat, t) : t \in SampleTitles}

OpenedIssues ==
    {Issue(a) : a \in Logins}
    \cup {Without(Issue(Octocat), k) : k \in {"comments_url", "user.login"}}

Unrouted ==
    {IssuesEvent("closed", Issue(Octocat)),
     IssuesEvent("edited", Issue(Octocat)),
     PullRequestEvent("reopened",
                      PullRequest(FALSE, Octocat, TitleAddFeature)),
     [event |-> "milestone", action |-> "opened", payload |-> <<>>],
     [event |-> "milestone", action |-> "closed", payload |-> <<>>]}

Inbound ==
    {PullRequestEvent("closed", pr) : pr \in ClosedPulls}
    \cup {PullRequestEvent("opened", pr) : pr \in OpenedPulls}
    \cup {PullRequestEvent("edited", pr) : pr \in EditedPulls}
    \cup {IssuesEvent("opened", i) : i \in OpenedIssues}
    \cup Unrouted

\* ---------------------------------------------------------------- routing
\* Faulty variant of Handlers: on_issue_opened is registered with the action set
\* of on_pr_check_wip.
HandlersMixedUp ==
    <<[name |-> "on_pr_merged", event |-> "pull_request",
       actions |-> {"closed"}],
      [name |-> "on_issue_opened", event |-> "issues",
       actions |-> {"opened", "edited"}],
      [name |-> "on_pr_check_wip", event |-> "pull_request",
       actions |-> {"opened", "edited"}]>>

\* The registrations made by the @process_event_actions decorators, in
\* source order.
Handlers ==
    <<[name |-> "on_pr_merged", event |-> "pull_request",
       actions |-> {"closed"}],
      [name |-> "on_issue_opened", event |-> "issues",
       actions |-> {"opened"}],
      [name |-> "on_pr_check_wip", event |-> "pull_request",
       actions |-> {"opened", "edited"}]>>

\* A registration applies to a delivery of its event type whose action is
\* one of its declared actions.
Matches(h, event, action) == h.event = event /\ action \in h.actions

\* -------------------------------------------------------------------- state
VARIABLES
    deliveries,   \* the deliveries received, in order of arrival
    tasks,        \* one record per handler invocation
    comments,     \* GitHub: the bag of comments created
    check_runs,   \* GitHub: the check runs created; the id is the index
    probe         \* the title heuristic applied to one title on its own

vars == <<deliveries, tasks, comments, check_runs, probe>>

\* A handler invocation at entry: no local is bound yet.
NewTask(name, n) ==
    [handler |-> name, delivery |-> n, pc |-> "start",
     github_api |-> "unbound", resp_id |-> 0, error |-> "none",
     calls |-> <<>>]

Spawn(d, n) ==
    LET sel == SelectSeq(Handlers, LAMBDA h : Matches(h, d.event, d.action))
    IN  [i \in 1..Len(sel) |-> NewTask(sel[i].name, n)]

PayloadOf(t) == deliveries[tasks[t].delivery].payload

IdleProbe == [state |-> "idle", title |-> <<>>, is_wip_pr |-> FALSE,
              conclusion |-> "none", requests |-> <<>>]

Init ==
    /\ deliveries = <<>>
    /\ tasks = <<>>
    /\ comments = EmptyBag
    /\ check_runs = <<>>
    /\ probe = IdleProbe

\* A webhook delivery arrives and is dispatched to the matching handlers.
Deliver(d) ==
    /\ Len(deliveries) < MaxDeliveries
    /\ deliveries' = Append(deliveries, d)
    /\ tasks' = tasks \o Spawn(d, Len(deliveries) + 1)
    /\ UNCHANGED <<comments, check_runs, probe>>

\* ------------------------------------------------------- task transitions
\* The exception `kind` leaves the handler: nothing catches it.
Raise(task, kind) == [task EXCEPT !.pc = "fault", !.error = kind]

\* `return`, or the end of the function body.
Return(task) == [task EXCEPT !.pc = "done"]

\* github_api = RUNTIME_CONTEXT.app_installation_client
BindClient(task) == [task EXCEPT !.github_api = "app_installation_client"]

\* `await github_api.<verb>(url, data=...)`: the request is sent and the
\* task is suspended at `label` until the response arrives.  Evaluating
\* the name github_api while the local is unbound raises
\* UnboundLocalError before anything is sent.
Call(task, verb, url, preview, data, label) ==
    IF task.github_api = "unbound"
    THEN Raise(task, "UnboundLocalError")
    ELSE [task EXCEPT
            !.pc = label,
            !.calls = Append(@, [verb |-> verb, url |-> url,
                                 preview |-> preview, data |-> data,
                                 result |-> "pending"])]

\* The response to the task's pending call (its last one).
Settle(task, result) ==
    [task EXCEPT !.calls[Len(task.calls)].result = result]

LastCall(task) == task.calls[Len(task.calls)]

\* ----------------------------------------------------------- on_pr_merged
\* Faulty variant of not_merged: the early return is dropped.
not_merged_ignored(pull_request) == FALSE

\* not pull_request['merged']
not_merged(pull_request) == ~pull_request["merged"]

\* Faulty variant of pr_message: the author is not interpolated.
pr_message_anonymous(author) == Concat(ThanksForThePr, BangSpace)

\* f"Thanks for the PR @{author}! "
pr_message(author) == Concat(Concat(ThanksForThePr, author), BangSpace)

\* Entry to the first await (or to the early return).
on_pr_merged_start(t) ==
    /\ tasks[t].handler = "on_pr_merged"
    /\ tasks[t].pc = "start"
    /\ LET pull_request == PayloadOf(t).pull_request
           task == BindClient(tasks[t])
       IN  tasks' = [tasks EXCEPT ![t] =
             IF ~Has(pull_request, "merged")
             THEN Raise(task, "KeyError")
             ELSE IF not_merged(pull_request)
             THEN Return(task)
             ELSE IF ~Has(pull_request, "comments_url")
                     \/ ~Has(pull_request, "user.login")
             THEN Raise(task, "KeyError")
             ELSE Call(task, "POST", pull_request["comments_url"], "none",
                       [body |-> pr_message(pull_request["user.login"])],
                       "await_post")]
    /\ UNCHANGED <<deliveries, comments, check_runs, probe>>

\* Faulty variant of CommentPosted: a failed POST is caught and sent
\* again.
CommentPostedRetrying(t, ok) ==
    /\ tasks[t].pc = "await_post"
    /\ IF ok
       THEN /\ tasks' = [tasks EXCEPT ![t] = Return(Settle(tasks[t], "ok"))]
            /\ comments' = comments (+) SetToBag(
                   {[url |-> LastCall(tasks[t]).url,
                     body |-> LastCall(tasks[t]).data.body]})
       ELSE /\ Len(tasks[t].calls) < 2
            /\ tasks' = [tasks EXCEPT ![t] =
                   Call(Settle(tasks[t], "error"), "POST",
                        LastCall(tasks[t]).url, "none",
                        LastCall(tasks[t]).data, "await_post")]
            /\ UNCHANGED comments
    /\ UNCHANGED <<deliveries, check_runs, probe>>

\* The response to the comment POST: the comment exists, or the client
\* raises and the exception leaves the handler.
CommentPosted(t, ok) ==
    /\ tasks[t].pc = "await_post"
    /\ IF ok
       THEN /\ tasks' = [tasks EXCEPT ![t] = Return(Settle(tasks[t], "ok"))]
            /\ comments' = comments (+) SetToBag(
                   {[url |-> LastCall(tasks[t]).url,
                     body |-> LastCall(tasks[t]).data.body]})
       ELSE /\ tasks' = [tasks EXCEPT ![t] =
                   Raise(Settle(tasks[t], "error"), "ClientError")]
            /\ UNCHANGED comments
    /\ UNCHANGED <<deliveries, check_runs, probe>>

on_pr_merged_resume(t) ==
    /\ tasks[t].handler = "on_pr_merged"
    /\ \E ok \in BOOLEAN : CommentPosted(t, ok)

on_pr_merged(t) == on_pr_merged_start(t) \/ on_pr_merged_resume(t)

\* -------------------------------------------------------- on_issue_opened
\* The acknowledgement's tail without the robot face.
PlainIssueTail ==
    <<"!", " ", "I", " ", "w", "i", "l", "l", " ", "l", "o", "o", "k", " ",
      "i", "n", "t", "o", " ", "i", "t", " ", "A", "S", "A", "P", "!", " ",
      "(", "I", "'", "m", " ", "a", " ", "b", "o", "t", ")", ".">>

\* Faulty variant of issue_message: the robot face is left out.
issue_message_plain(author) ==
    Concat(Concat(ThanksForTheReport, author), PlainIssueTail)

\* f"Thanks for the report @{author}! " "I will look into it ASAP! ..."
issue_message(author) ==
    Concat(Concat(ThanksForTheReport, author), IssueTail)

\* Faulty variant of on_issue_opened_start: a missing login is replaced by
\* a default instead of raising.
on_issue_opened_start_lenient(t) ==
    /\ tasks[t].handler = "on_issue_opened"
    /\ tasks[t].pc = "start"
    /\ LET issue == PayloadOf(t).issue
           task == BindClient(tasks[t])
           author == IF Has(issue, "user.login") THEN issue["user.login"]
                     ELSE <<"g", "h", "o", "s", "t">>
       IN  tasks' = [tasks EXCEPT ![t] =
             IF ~Has(issue, "comments_url")
             THEN Raise(task, "KeyError")
             ELSE Call(task, "POST", issue["comments_url"], "none",
                       [body |-> issue_message(author)], "await_post")]
    /\ UNCHANGED <<deliveries, comments, check_runs, probe>>

\* Faulty variant of on_issue_opened_start: a delivery whose comment another
\* invocation has already sent is skipped.
on_issue_opened_start_dedup(t) ==
    /\ tasks[t].handler = "on_issue_opened"
    /\ tasks[t].pc = "start"
    /\ LET issue == PayloadOf(t).issue
           task == BindClient(tasks[t])
           sent == \E u \in DOMAIN tasks :
                      /\ u # t
                      /\ tasks[u].handler = "on_issue_opened"
                      /\ tasks[u].calls # <<>>
                      /\ PayloadOf(u) = PayloadOf(t)
       IN  tasks' = [tasks EXCEPT ![t] =
             IF ~Has(issue, "comments_url") \/ ~Has(issue, "user.login")
             THEN Raise(task, "KeyError")
             ELSE IF sent
             THEN Return(task)
             ELSE Call(task, "POST", issue["comments_url"], "none",
                       [body |-> issue_message(issue["user.login"])],
                       "await_post")]
    /\ UNCHANGED <<deliveries, comments, check_runs, probe>>

on_issue_opened_start(t) ==
    /\ tasks[t].handler = "on_issue_opened"
    /\ tasks[t].pc = "start"
    /\ LET issue == PayloadOf(t).issue
           task == BindClient(tasks[t])
       IN  tasks' = [tasks EXCEPT ![t] =
             IF ~Has(issue, "comments_url") \/ ~Has(issue, "user.login")
             THEN Raise(task, "KeyError")
             ELSE Call(task, "POST", issue["comments_url"], "none",
                       [body |-> issue_message(issue["user.login"])],
                       "await_post")]
    /\ UNCHANGED <<deliveries, comments, check_runs, probe>>

on_issue_opened_resume(t) ==
    /\ tasks[t].handler = "on_issue_opened"
    /\ \E ok \in BOOLEAN : CommentPosted(t, ok)

on_issue_opened(t) == on_issue_opened_start(t) \/ on_issue_opened_resume(t)

\* -------------------------------------------------------- on_pr_check_wip
check_run_name == "Work-in-progress state"

\* wip_markers = ('wip', U+1F6A7, 'dnm', 'work in progress', ...)
wip_markers ==
    <<
      <<"w", "i", "p">>,
      <<"U+1F6A7">>,
      <<"d", "n", "m">>,
      <<"w", "o", "r", "k", " ", "i", "n", " ", "p", "r", "o", "g", "r",
        "e", "s", "s">>,
      <<"w", "o", "r", "k", "-", "i", "n", "-", "p", "r", "o", "g", "r",
        "e", "s", "s">>,
      <<"d", "o", " ", "n", "o", "t", " ", "m", "e", "r", "g", "e">>,
      <<"d", "o", "-", "n", "o", "t", "-", "m", "e", "r", "g", "e">>,
      <<"d", "r", "a", "f", "t">>
    >>

\* Faulty variant of lower: the title is searched as written.
lower_missing(s) == s

\* pull_request['title'].lower()
lower(s) == [i \in 1..Len(s) |-> LowerChar(s[i])]

\* any(m in pr_title for m in wip_markers)
is_wip_pr(pr_title) ==
    \E i \in DOMAIN wip_markers : In(wip_markers[i], pr_title)

\* Faulty variant of conclusion: a work-in-progress title fails the check.
conclusion_failure(is_wip) == IF ~is_wip THEN "success" ELSE "failure"

\* 'success' if not is_wip_pr else 'neutral'
conclusion(is_wip) == IF ~is_wip THEN "success" ELSE "neutral"

\* str(bool)
BoolStr(b) == IF b THEN "True" ELSE "False"

\* The debug block of the output text: the values interpolated into it.
debug_info(is_wip, pr_title) ==
    [is_wip_pr |-> BoolStr(is_wip), pr_title |-> pr_title,
     wip_markers |-> wip_markers]

\* Faulty variant of output: the two objects are chosen the wrong way round.
output_swapped(is_wip, pr_title) ==
    IF is_wip
    THEN [title |-> "This PR is not Work-in-progress: Good to go",
          text |-> debug_info(is_wip, pr_title),
          summary |-> "This change is ready to be reviewed."]
    ELSE [title |-> "This PR is Work-in-progress: It is incomplete",
          text |-> debug_info(is_wip, pr_title),
          summary |-> "Please do not merge this PR as it is still under construction."]

\* {...} if not is_wip_pr else {...}
output(is_wip, pr_title) ==
    IF ~is_wip
    THEN [title |-> "This PR is not Work-in-progress: Good to go",
          text |-> debug_info(is_wip, pr_title),
          summary |-> "This change is ready to be reviewed."]
    ELSE [title |-> "This PR is Work-in-progress: It is incomplete",
          text |-> debug_info(is_wip, pr_title),
          summary |-> "Please do not merge this PR as it is still under construction."]

\* f'{repo_url}/check-runs'
check_runs_base_uri(pull_request) ==
    Concat(pull_request["head.repo.url"], <<"check-runs">>)

\* f'{check_runs_base_uri}/{resp["id"]:d}'
check_runs_updates_uri(pull_request, id) ==
    Concat(check_runs_base_uri(pull_request), <<id>>)

\* GitHub resolves the check run a PATCH addresses from the URL's last
\* segment.
Addressed(call) == call.url[Len(call.url)]

\* The data of the three calls.
create_data(pull_request) ==
    [name |-> check_run_name, head_sha |-> pull_request["head.sha"],
     status |-> "queued", started_at |-> "utcnow"]

in_progress_data == [name |-> check_run_name, status |-> "in_progress"]

completed_data(is_wip, pr_title) ==
    [name |-> check_run_name, status |-> "completed",
     conclusion |-> conclusion(is_wip), completed_at |-> "utcnow",
     output |-> output(is_wip, pr_title)]

\* Lines 79-96: read the head of the pull request and send the create call
\* through github_api, which this function binds only later (line 102).
wip_start(task, pull_request) ==
    IF \/ ~Has(pull_request, "head.ref")
       \/ ~Has(pull_request, "head.sha")
       \/ ~Has(pull_request, "head.repo.url")
    THEN Raise(task, "KeyError")
    ELSE Call(task, "POST", check_runs_base_uri(pull_request), "antiope",
              create_data(pull_request), "await_create")

\* Lines 98-110: keep the id of the response, bind github_api, send the
\* in_progress PATCH.
wip_created(task, pull_request, id) ==
    Call(BindClient([Settle(task, "ok") EXCEPT !.resp_id = id]),
         "PATCH", check_runs_updates_uri(pull_request, id), "antiope",
         in_progress_data, "await_in_progress")

\* Lines 112-166: evaluate the title and send the completing PATCH.
wip_in_progress(task, pull_request) ==
    IF ~Has(pull_request, "title")
    THEN Raise(Settle(task, "ok"), "KeyError")
    ELSE LET pr_title == lower(pull_request["title"])
         IN  Call(Settle(task, "ok"), "PATCH",
                  check_runs_updates_uri(pull_request, task.resp_id),
                  "antiope",
                  completed_data(is_wip_pr(pr_title), pr_title),
                  "await_completed")

\* GitHub applies a PATCH to the check run it addresses.
Patched(runs, call) ==
    [runs EXCEPT ![Addressed(call)] =
        [@ EXCEPT !.status = call.data.status,
                  !.conclusion = IF Has(call.data, "conclusion")
                                 THEN call.data.conclusion ELSE @]]

\* One step of the handler: from entry or from a response to the next
\* await, to the end of the function, or to the exception that leaves it.
on_pr_check_wip(t) ==
    /\ tasks[t].handler = "on_pr_check_wip"
    /\ LET task == tasks[t]
           pull_request == PayloadOf(t).pull_request
       IN  CASE task.pc = "start" ->
                  /\ tasks' = [tasks EXCEPT ![t] =
                                 wip_start(task, pull_request)]
                  /\ UNCHANGED check_runs
             [] task.pc = "await_create" ->
                  \E ok \in BOOLEAN :
                     IF ok
                     THEN /\ check_runs' = Append(check_runs,
                               [name |-> LastCall(task).data.name,
                                head_sha |-> LastCall(task).data.head_sha,
                                status |-> LastCall(task).data.status,
                                conclusion |-> "none"])
                          /\ tasks' = [tasks EXCEPT ![t] =
                               wip_created(task, pull_request,
                                           Len(check_runs) + 1)]
                     ELSE /\ tasks' = [tasks EXCEPT ![t] =
                               Raise(Settle(task, "error"), "ClientError")]
                          /\ UNCHANGED check_runs
             [] task.pc = "await_in_progress" ->
                  \E ok \in BOOLEAN :
                     IF ok
                     THEN /\ check_runs' = Patched(check_runs, LastCall(task))
                          /\ tasks' = [tasks EXCEPT ![t] =
                               wip_in_progress(task, pull_request)]
                     ELSE /\ tasks' = [tasks EXCEPT ![t] =
                               Raise(Settle(task, "error"), "ClientError")]
                          /\ UNCHANGED check_runs
             [] task.pc = "await_completed" ->
                  \E ok \in BOOLEAN :
                     IF ok
                     THEN /\ check_runs' = Patched(check_runs, LastCall(task))
                          /\ tasks' = [tasks EXCEPT ![t] =
                               Return(Settle(task, "ok"))]
                     ELSE /\ tasks' = [tasks EXCEPT ![t] =
                               Raise(Settle(task, "error"), "ClientError")]
                          /\ UNCHANGED check_runs
             [] OTHER -> FALSE
    /\ UNCHANGED <<deliveries, comments, probe>>

\* ------------------------------------------------------------ behaviours
Next ==
    \/ \E d \in Inbound : Deliver(d)
    \/ \E t \in DOMAIN tasks : on_pr_merged(t)
    \/ \E t \in DOMAIN tasks : on_issue_opened(t)
    \/ \E t \in DOMAIN tasks : on_pr_check_wip(t)

Spec == Init /\ [][Next]_vars

\* The title heuristic on its own: every title made of up to
\* MaxTitleParts fragments is lower-cased, searched for the markers and
\* given its conclusion, as lines 112-128 do, and the data of the three
\* requests is built for a pull request of that title, as lines 90-95,
\* 106-109 and 125-165 do.
TitleParts ==
    {
      <<"W", "I", "P">>,
      <<":", " ", "a", "d", "d", " ", "f", "e", "a", "t", "u", "r", "e">>,
      <<"A", "d", "d", " ", "f", "e", "a", "t", "u", "r", "e">>,
      <<"F", "i", "x", " ">>,
      <<"D", "N", "M">>,
      <<" ", "b", "u", "g">>,
      <<"U+1F6A7">>,
      <<" ", "d", "r", "a", "f", "t", " ", "P", "R">>,
      <<"W", "o", "r", "k", " ", "I", "n">>,
      <<" ", "P", "r", "o", "g", "r", "e", "s", "s">>,
      <<"W", "o", "r", "k", "-", "I", "n", "-", "P", "r", "o", "g", "r", "e",
        "s", "s">>,
      <<"D", "o", " ", "N", "o", "t", " ", "M", "e", "r", "g", "e">>,
      <<"D", "O", "-", "N", "O", "T">>,
      <<"-", "M", "E", "R", "G", "E">>
    }

RECURSIVE TitlesUpTo(_)
TitlesUpTo(k) ==
    IF k = 0 THEN {<<>>}
    ELSE TitlesUpTo(k - 1)
         \cup {Concat(s, p) : s \in TitlesUpTo(k - 1), p \in TitleParts}

Titles == TitlesUpTo(MaxTitleParts)

InitTitle ==
    /\ deliveries = <<>>
    /\ tasks = <<>>
    /\ comments = EmptyBag
    /\ check_runs = <<>>
    /\ probe \in {[IdleProbe EXCEPT !.state = "given", !.title = s] :
                    s \in Titles}

EvaluateTitle ==
    /\ probe.state = "given"
    /\ LET pull_request == PullRequest(FALSE, Octocat, probe.title)
           pr_title == lower(pull_request["title"])
       IN  probe' = [state |-> "evaluated", title |-> probe.title,
                     is_wip_pr |-> is_wip_pr(pr_title),
                     conclusion |-> conclusion(is_wip_pr(pr_title)),
                     requests |->
                        <<create_data(pull_request), in_progress_data,
                          completed_data(is_wip_pr(pr_title), pr_title)>>]
    /\ UNCHANGED <<deliveries, tasks, comments, check_runs>>

SpecTitle == InitTitle /\ [][EvaluateTitle]_vars

\* ============================================================ properties
Terminal(task) == task.pc \in {"done", "fault"}

NoCallFailed(task) ==
    \A i \in DOMAIN task.calls : task.calls[i].result # "error"

TasksOf(n) == {t \in DOMAIN tasks : tasks[t].delivery = n}

TasksOfHandler(name) == {t \in DOMAIN tasks : tasks[t].handler = name}

\* The payload carries every key the handler reads.
WellFormedFor(name, payload) ==
    CASE name = "on_pr_merged" ->
           \A k \in {"merged", "comments_url", "user.login"} :
              Has(payload.pull_request, k)
      [] name = "on_issue_opened" ->
           \A k \in {"comments_url", "user.login"} : Has(payload.issue, k)
      [] name = "on_pr_check_wip" ->
           \A k \in {"head.ref", "head.sha", "head.repo.url", "title"} :
              Has(payload.pull_request, k)

WellFormedTasks(name) ==
    {t \in TasksOfHandler(name) : WellFormedFor(name, PayloadOf(t))}

\* C1: every pull_request opened or edited delivery whose calls all
\* succeed has, once its handler has ended, issued exactly three calls:
\* the POST creating the check run as queued, the PATCH to in_progress and
\* the PATCH to completed, in this order.
C1_ThreeCallsInOrder ==
    \A t \in WellFormedTasks("on_pr_check_wip") :
        (Terminal(tasks[t]) /\ NoCallFailed(tasks[t])) =>
            LET calls == tasks[t].calls
            IN  /\ Len(calls) = 3
                /\ calls[1].verb = "POST"
                /\ calls[1].data.status = "queued"
                /\ calls[2].verb = "PATCH"
                /\ calls[2].data.status = "in_progress"
                /\ calls[3].verb = "PATCH"
                /\ calls[3].data.status = "completed"

\* The eight markers as the specification lists them.
FixedMarkers ==
    {<<"w", "i", "p">>,
     <<"U+1F6A7">>,
     <<"d", "n", "m">>,
     <<"w", "o", "r", "k", " ", "i", "n", " ", "p", "r", "o", "g", "r",
       "e", "s", "s">>,
     <<"w", "o", "r", "k", "-", "i", "n", "-", "p", "r", "o", "g", "r",
       "e", "s", "s">>,
     <<"d", "o", " ", "n", "o", "t", " ", "m", "e", "r", "g", "e">>,
     <<"d", "o", "-", "n", "o", "t", "-", "m", "e", "r", "g", "e">>,
     <<"d", "r", "a", "f", "t">>}

\* Two characters are the same up to letter case: equal, or the upper-
\* and lower-case forms of one letter.
CasePairs == {<<UpperCase[i], LowerCase[i]>> : i \in DOMAIN UpperCase}

SameIgnoringCase(a, b) ==
    a = b \/ <<a, b>> \in CasePairs \/ <<b, a>> \in CasePairs

\* Some marker occurs in the title at some offset, compared character by
\* character without regard to case.
ContainsMarkerIgnoringCase(title) ==
    \E m \in FixedMarkers :
        \E off \in 0..Len(title) :
            /\ off + Len(m) <= Len(title)
            /\ \A k \in 1..Len(m) : SameIgnoringCase(title[off + k], m[k])

C3_UnmergedCloseIsSilent ==
    \A t \in TasksOfHandler("on_pr_merged") :
        LET pull_request == PayloadOf(t).pull_request
        IN  (Has(pull_request, "merged") /\ ~pull_request["merged"]) =>
                /\ tasks[t].calls = <<>>
                /\ tasks[t].pc \in {"start", "done"}
                /\ tasks[t].error = "none"

C3_Witness ==
    \E t \in TasksOfHandler("on_pr_merged") :
        /\ Has(PayloadOf(t).pull_request, "merged")
        /\ ~PayloadOf(t).pull_request["merged"]
        /\ tasks[t].pc = "done"
        /\ tasks[t].calls = <<>>

\* C4: a pull_request closed delivery whose pull request is merged makes
\* exactly one outbound call, a POST to the pull request's comments_url
\* whose body contains the author's login, and no other call.
C4_MergedCloseOneComment ==
    \A t \in WellFormedTasks("on_pr_merged") :
        LET pull_request == PayloadOf(t).pull_request
            calls == tasks[t].calls
        IN  pull_request["merged"] =>
                IF tasks[t].pc = "start"
                THEN calls = <<>>
                ELSE /\ Len(calls) = 1
                     /\ calls[1].verb = "POST"
                     /\ calls[1].url = pull_request["comments_url"]
                     /\ In(pull_request["user.login"], calls[1].data.body)

C4_Witness ==
    \E t \in WellFormedTasks("on_pr_merged") :
        /\ PayloadOf(t).pull_request["merged"]
        /\ PayloadOf(t).pull_request["user.login"] = Hubot
        /\ tasks[t].pc = "done"
        /\ Len(tasks[t].calls) = 1
        /\ tasks[t].calls[1].result = "ok"

\* The one call an issues opened delivery makes once its handler has
\* started: a POST to the issue's comments_url with the given body.
OneCommentWithBody(t, body) ==
    IF tasks[t].pc = "start"
    THEN tasks[t].calls = <<>>
    ELSE /\ Len(tasks[t].calls) = 1
         /\ tasks[t].calls[1].verb = "POST"
         /\ tasks[t].calls[1].url = PayloadOf(t).issue["comments_url"]
         /\ tasks[t].calls[1].data.body = body

\* C5 as originally stated: the body is "Thanks for the report @{author}! I will
\* look into it ASAP! (I'm a bot)."
C5_ClaimedBody ==
    \A t \in WellFormedTasks("on_issue_opened") :
        OneCommentWithBody(t,
            ThanksForTheReport \o PayloadOf(t).issue["user.login"]
                \o PlainIssueTail)

\* C5: every issues opened delivery makes exactly one outbound call, a
\* POST to the issue's comments_url whose body is "Thanks for the report
\* @{author}! I will look into it ASAP! (I'm a bot U+1F916)." with the
\* robot face before the closing parenthesis.
C5_BodyWithRobotFace ==
    \A t \in WellFormedTasks("on_issue_opened") :
        OneCommentWithBody(t,
            ThanksForTheReport \o PayloadOf(t).issue["user.login"]
                \o IssueTail)

C5_Witness ==
    \E t \in WellFormedTasks("on_issue_opened") :
        /\ tasks[t].pc = "done"
        /\ PayloadOf(t).issue["user.login"] = Octocat
        /\ Len(tasks[t].calls) = 1
        /\ tasks[t].calls[1].result = "ok"
        /\ "U+1F916" \in {tasks[t].calls[1].data.body[i] :
                            i \in DOMAIN tasks[t].calls[1].data.body}

\* The responders the specification names for each event type and action.
ExpectedResponders(event, action) ==
    IF event = "pull_request" /\ action = "closed"
    THEN {"on_pr_merged"}
    ELSE IF event = "issues" /\ action = "opened"
    THEN {"on_issue_opened"}
    ELSE IF event = "pull_request" /\ action \in {"opened", "edited"}
    THEN {"on_pr_check_wip"}
    ELSE {}

\* C8: a delivery selects exactly the responders whose declared type
\* equals its type and whose declared action set holds its action:
\* pull_request/closed only on_pr_merged, issues/opened only
\* on_issue_opened, pull_request/opened and pull_request/edited only
\* on_pr_check_wip; any other pair selects none, so that delivery has no
\* invocation, no outbound call and no fault.
C8_ExactRouting ==
    \A n \in DOMAIN deliveries :
        LET want == ExpectedResponders(deliveries[n].event,
                                       deliveries[n].action)
        IN  /\ {tasks[t].handler : t \in TasksOf(n)} = want
            /\ Cardinality(TasksOf(n)) = Cardinality(want)

C8_Witness ==
    \E m, n \in DOMAIN deliveries :
        /\ deliveries[m].event = "issues"
        /\ deliveries[m].action = "edited"
        /\ TasksOf(m) = {}
        /\ deliveries[n].event = "pull_request"
        /\ deliveries[n].action = "edited"
        /\ \E t \in TasksOf(n) : Terminal(tasks[t])

\* The comment POSTs made so far by on_issue_opened, as (task, index).
IssueCommentPosts ==
    {<<t, i>> \in TasksOfHandler("on_issue_opened") \X (1..1) :
        /\ i \in DOMAIN tasks[t].calls
        /\ tasks[t].calls[i].verb = "POST"}

\* The comments GitHub holds on the issue, counted with multiplicity.
IssueCommentCount ==
    BagCardinality([c \in {x \in BagToSet(comments) :
                             x.url = IssueCommentsUrl} |-> comments[c]])

\* C9: there is no deduplication: the comment POSTs made equal in number
\* the issues opened deliveries whose handler has run, identical
\* re-sends included, and every POST that succeeded has left a comment of
\* its own.
C9_NoDeduplication ==
    LET started == {t \in WellFormedTasks("on_issue_opened") :
                      tasks[t].pc # "start"}
        succeeded == {t \in started : tasks[t].pc = "done"}
    IN  /\ \A t \in TasksOfHandler("on_issue_opened") :
              Len(tasks[t].calls) <= 1
        /\ Cardinality(IssueCommentPosts) = Cardinality(started)
        /\ IssueCommentCount = Cardinality(succeeded)

C9_Witness ==
    /\ Len(deliveries) = 2
    /\ deliveries[1] = deliveries[2]
    /\ deliveries[1].event = "issues"
    /\ deliveries[1].action = "opened"
    /\ \A t \in DOMAIN tasks : tasks[t].pc = "done"
    /\ Cardinality(IssueCommentPosts) = 2
    /\ IssueCommentCount = 2

\* The check-run create calls made so far, as (task, index).
CreateCalls ==
    {<<t, i>> \in TasksOfHandler("on_pr_check_wip") \X (1..3) :
        /\ i \in DOMAIN tasks[t].calls
        /\ tasks[t].calls[i].verb = "POST"}

\* C10: every pull_request opened or edited delivery creates a check run
\* of its own: once the handlers of k such deliveries have ended with no
\* call failed, k create calls have been made, and every PATCH of a
\* delivery addresses the check run its own create call returned.
C10_OneCheckRunPerDelivery ==
    LET wip == WellFormedTasks("on_pr_check_wip")
    IN  (\A t \in wip : Terminal(tasks[t]) /\ NoCallFailed(tasks[t])) =>
            /\ Cardinality(CreateCalls) = Cardinality(wip)
            /\ \A t, u \in wip :
                  t # u => tasks[t].resp_id # tasks[u].resp_id
            /\ \A t \in wip : \A i \in DOMAIN tasks[t].calls :
                  tasks[t].calls[i].verb = "PATCH"
                     => Addressed(tasks[t].calls[i]) = tasks[t].resp_id

\* The conclusion the specification gives a title.
ExpectedConclusion(title) ==
    IF ContainsMarkerIgnoringCase(title) THEN "neutral" ELSE "success"

\* C11: when two pull_request opened or edited deliveries are handled
\* concurrently, interleaved at their awaits, then once both handlers
\* have ended with no call failed two distinct check runs exist, each
\* handler has patched only the check run its own create call returned,
\* and each check run's conclusion is the one of its own delivery's title.
C11_TwoConcurrentCheckRuns ==
    \A t, u \in WellFormedTasks("on_pr_check_wip") :
        (/\ t # u
         /\ Terminal(tasks[t]) /\ NoCallFailed(tasks[t])
         /\ Terminal(tasks[u]) /\ NoCallFailed(tasks[u])) =>
            /\ tasks[t].resp_id \in DOMAIN check_runs
            /\ tasks[u].resp_id \in DOMAIN check_runs
            /\ tasks[t].resp_id # tasks[u].resp_id
            /\ \A x \in {t, u} :
                  /\ \A i \in DOMAIN tasks[x].calls :
                        tasks[x].calls[i].verb = "PATCH" =>
                           Addressed(tasks[x].calls[i]) = tasks[x].resp_id
                  /\ check_runs[tasks[x].resp_id].conclusion =
                        ExpectedConclusion(PayloadOf(x).pull_request["title"])

\* C13: if every outbound call succeeds, the check run of a pull_request
\* opened or edited delivery reaches status completed: a handler that has
\* ended with no call failed has left its check run completed, not queued
\* or in_progress (and not missing).
C13_CheckRunCompleted ==
    \A t \in WellFormedTasks("on_pr_check_wip") :
        (Terminal(tasks[t]) /\ NoCallFailed(tasks[t])) =>
            /\ tasks[t].resp_id \in DOMAIN check_runs
            /\ check_runs[tasks[t].resp_id].status = "completed"

CommentTasks ==
    TasksOfHandler("on_pr_merged") \cup TasksOfHandler("on_issue_opened")

\* C12: on_pr_merged and on_issue_opened never retry and never catch a
\* failure: each attempts its comment POST at most once per delivery, and
\* a failed POST ends the delivery's processing in a fault (the client's
\* error, uncaught) that leaves no comment behind.
C12_FailedPostIsFatal ==
    /\ \A t \in CommentTasks :
          /\ Len(tasks[t].calls) <= 1
          /\ \A i \in DOMAIN tasks[t].calls :
                tasks[t].calls[i].result = "error" =>
                   /\ tasks[t].pc = "fault"
                   /\ tasks[t].error = "ClientError"
    /\ BagCardinality(comments) =
          Cardinality({t \in CommentTasks :
                         /\ tasks[t].calls # <<>>
                         /\ tasks[t].calls[1].result = "ok"})

C12_Witness ==
    \E t \in TasksOfHandler("on_pr_merged") :
        \E u \in TasksOfHandler("on_issue_opened") :
            /\ tasks[t].pc = "fault" /\ tasks[u].pc = "fault"
            /\ Len(tasks[t].calls) = 1 /\ Len(tasks[u].calls) = 1
            /\ tasks[t].calls[1].result = "error"
            /\ tasks[u].calls[1].result = "error"
            /\ comments = EmptyBag

\* C16: in on_pr_check_wip the installation client is bound before its
\* first use: no use of github_api finds the local unbound, and a handler
\* that has got past its create call holds the client.
C16_ClientBoundBeforeUse ==
    \A t \in TasksOfHandler("on_pr_check_wip") :
        /\ tasks[t].error # "UnboundLocalError"
        /\ tasks[t].calls # <<>> =>
              tasks[t].github_api = "app_installation_client"

\* C14: the create call of on_pr_check_wip is a POST to
\* {head_repo_url}/check-runs carrying status queued and the head sha;
\* both later PATCH calls go to {head_repo_url}/check-runs/{id}, id being
\* the id the same delivery's create call returned; all three calls
\* carry the name "Work-in-progress state".  Stated of a handler that has
\* ended with no call failed.
C14_CallsAddressOwnCheckRun ==
    \A t \in WellFormedTasks("on_pr_check_wip") :
        (Terminal(tasks[t]) /\ NoCallFailed(tasks[t])) =>
            LET pull_request == PayloadOf(t).pull_request
                calls == tasks[t].calls
                base == pull_request["head.repo.url"] \o <<"check-runs">>
            IN  /\ Len(calls) >= 3
                /\ calls[1].verb = "POST"
                /\ calls[1].url = base
                /\ calls[1].data.status = "queued"
                /\ calls[1].data.head_sha = pull_request["head.sha"]
                /\ tasks[t].resp_id \in DOMAIN check_runs
                /\ \A i \in {2, 3} :
                      /\ calls[i].verb = "PATCH"
                      /\ calls[i].url = base \o <<tasks[t].resp_id>>
                /\ \A i \in DOMAIN calls :
                      calls[i].data.name = "Work-in-progress state"

MalformedTasks ==
    {t \in DOMAIN tasks :
        ~WellFormedFor(tasks[t].handler, PayloadOf(t))}

\* An unmerged close: on_pr_merged returns after reading only "merged".
UnmergedClose(t) ==
    /\ tasks[t].handler = "on_pr_merged"
    /\ Has(PayloadOf(t).pull_request, "merged")
    /\ ~PayloadOf(t).pull_request["merged"]

\* C17 as originally stated: a delivery whose payload lacks a key its
\* responder reads ends in an unhandled fault, with zero outbound calls.
C17_MalformedAlwaysFaults ==
    \A t \in MalformedTasks :
        /\ tasks[t].calls = <<>>
        /\ Terminal(tasks[t]) => tasks[t].pc = "fault"

\* C17: a delivery whose payload lacks a key its responder reads makes
\* zero outbound calls and is not retried, so it leaves no comment and no
\* check run behind; it ends in an unhandled fault, except that a
\* pull_request closed delivery whose merged is present and false returns
\* normally, the missing comments_url or user.login never being read.
C17_MalformedMakesNoCall ==
    \A t \in MalformedTasks :
        /\ tasks[t].calls = <<>>
        /\ tasks[t].resp_id = 0
        /\ Terminal(tasks[t]) =>
              IF UnmergedClose(t)
              THEN tasks[t].pc = "done" /\ tasks[t].error = "none"
              ELSE tasks[t].pc = "fault"
                   /\ tasks[t].error \in {"KeyError", "UnboundLocalError"}

C17_Witness ==
    \E t \in MalformedTasks \cap TasksOfHandler("on_pr_check_wip") :
        \E u \in MalformedTasks \cap TasksOfHandler("on_pr_merged") :
            /\ ~Has(PayloadOf(t).pull_request, "title")
            /\ tasks[t].pc = "fault"
            /\ ~Has(PayloadOf(u).pull_request, "user.login")
            /\ tasks[u].pc = "fault"
            /\ tasks[u].error = "KeyError"
            /\ comments = EmptyBag /\ check_runs = <<>>
====
